---- MODULE Spec2Model ----
(***************************************************************************)
(* Model of nose_leak_detector/plugin.py: the LeakDetectorPlugin driven by *)
(* the nose test runner (begin, beforeTest, run_test, afterTest, report,   *)
(* finalize), the mock registry (register_mock, check_for_leaks) and the   *)
(* summary merge (_fast_get_summary_diff).  Python 2 semantics.            *)
(***************************************************************************)
EXTENDS Integers, Sequences, FiniteSets, TLC

(* ------------------------------ bounds --------------------------------- *)
MaxTests == 2      \* tests the runner may schedule in one run
MaxStubs == 2      \* mock objects that may ever exist in one run
MaxClasses == 2    \* distinct TestCase classes
MaxKey == 3        \* class keys of the summaries given to the merge

(* --------------------------- program constants -------------------------- *)
LEVEL_DIR == 1
LEVEL_MODULE == 2
LEVEL_CLASS == 3
LEVEL_TEST == 4

None == 0                         \* Python None where an object id is expected
NoTest == [id |-> 0, cls |-> 0]   \* Python None where a test is expected
NoSummary == << >>                \* Optional summary: << >> is None, <<s>> is s
Absent == << >>                   \* a dict key that is not set; <<v>> is set to v
MOCK_KEY == 1                     \* the summary class key of mock.Mock
MOCK_SIZE == 1                    \* size units of one mock object

Stubs == 1..MaxStubs
Levels == LEVEL_DIR..LEVEL_TEST

VARIABLES
    self,            \* the LeakDetectorPlugin instance (its attributes)
    stubs,           \* the heap's mock objects: status, ignore marker, creator
    patched,         \* mock.Base.__init__ is wrapped by begin()'s decorator
    pc,              \* position of the test runner
    test,            \* the test now between beforeTest and afterTest
    ntests,          \* tests started so far
    classes_seen,    \* distinct TestCase classes among them
    addError_calls,  \* addError(test, exc_info) calls, in order
    stop_calls,      \* number of result.stop() calls
    last_check,      \* what the most recent check_for_leaks saw and listed,
                     \* kept until a mock is created, released or renamed
    first_check,     \* per live stub: outcome of the first check after its creation
    times_new,       \* per live stub: number of checks whose new_mocks held it
    n_checks,        \* check_for_leaks calls so far
    n_reports,       \* memory delta reports printed so far
    last_report,     \* the last memory delta report printed
    final_checks,    \* final_check calls that ran check_for_leaks
    exit_calls,      \* per level: finished_level calls so far
    left, right,     \* inputs of _fast_get_summary_diff (merge specification)
    ret,             \* its result
    dpc              \* position of the merge specification

vars == << self, stubs, patched, pc, test, ntests, classes_seen, addError_calls, stop_calls,
           last_check, first_check, times_new, n_checks, n_reports,
           last_report, final_checks, exit_calls, left, right, ret, dpc >>

(* ------------------------------ helpers -------------------------------- *)
Range(s) == { s[i] : i \in DOMAIN s }

\* A dict keyed by level is a function on Levels to Absent or <<value>>.
EmptyDict == [ i \in Levels |-> Absent ]

DictPut(d, k, v) == [ d EXCEPT ![k] = << v >> ]

DictGet(d, k, default) == IF d[k] = Absent THEN default ELSE d[k][1]

DictIsEmpty(d) == \A k \in DOMAIN d : d[k] = Absent

\* The world the handlers act on: the plugin, the heap and the result sinks,
\* with exc the LeakDetected raised by the last check_for_leaks (if any).
World == [ self |-> self, stubs |-> stubs, addError_calls |-> addError_calls,
           stop_calls |-> stop_calls, last_check |-> last_check,
           first_check |-> first_check, times_new |-> times_new,
           n_checks |-> n_checks, n_reports |-> n_reports,
           final_checks |-> final_checks, last_report |-> last_report,
           exit_calls |-> exit_calls, exc |-> << >> ]

(* ------------------- _fast_get_summary_diff (341-394) ------------------ *)
\* A summary row is <<class_key, count, size>> (Python row[0], row[1], row[2]).
NoRow == << >>                    \* Python None where a row is expected

objects_key(object_footprint) == object_footprint[1]

\* Faulty variant of val_neg: the size is left positive.
val_neg_count_only(lval) == << lval[1], 0 - lval[2], lval[3] >>

val_neg(lval) == << lval[1], 0 - lval[2], 0 - lval[3] >>

\* next_safe on a list iterator: pos is the index of the next row it yields.
next_safe(rows, pos) ==
    IF pos <= Len(rows)
    THEN [val |-> rows[pos], end |-> FALSE, pos |-> pos + 1]
    ELSE [val |-> NoRow, end |-> TRUE, pos |-> pos]

\* [x for x in it]: what is left in the iterator.
Remaining(rows, pos) == SubSeq(rows, pos, Len(rows))

MapNeg(rows) == [ i \in 1..Len(rows) |-> val_neg(rows[i]) ]

RECURSIVE InsertByKey(_, _)
InsertByKey(row, rows) ==
    IF rows = << >> THEN << row >>
    ELSE IF objects_key(row) < objects_key(Head(rows)) THEN << row >> \o rows
    ELSE << Head(rows) >> \o InsertByKey(row, Tail(rows))

\* sorted(rows, key=objects_key): stable, ascending.
RECURSIVE sorted(_)
sorted(rows) ==
    IF rows = << >> THEN << >>
    ELSE InsertByKey(rows[Len(rows)], sorted(SubSeq(rows, 1, Len(rows) - 1)))

\* One evaluation of the while loop; s holds the loop's local variables.
RECURSIVE DiffLoop(_, _, _)
DiffLoop(lsorted, rsorted, s) ==
    IF s.lend /\ s.rend THEN s.ret
    ELSE IF s.lval = NoRow /\ s.lend
    THEN IF s.rval # NoRow
         THEN s.ret \o << s.rval >> \o Remaining(rsorted, s.rit)
         ELSE s.ret
    ELSE
      LET ln == next_safe(lsorted, s.lit)
          s1 == IF s.lval = NoRow
                THEN [s EXCEPT !.lval = ln.val, !.lend = ln.end, !.lit = ln.pos]
                ELSE s
      IN IF s1.rval = NoRow /\ s1.rend
         THEN IF s1.lval # NoRow
              THEN s1.ret \o << val_neg(s1.lval) >>
                          \o MapNeg(Remaining(lsorted, s1.lit))
              ELSE s1.ret
         ELSE
           LET rn == next_safe(rsorted, s1.rit)
               s2 == IF s1.rval = NoRow
                     THEN [s1 EXCEPT !.rval = rn.val, !.rend = rn.end, !.rit = rn.pos]
                     ELSE s1
               l2 == next_safe(lsorted, s2.lit)
               r2 == next_safe(rsorted, s2.rit)
           IN IF s2.lval = NoRow \/ s2.rval = NoRow
              THEN DiffLoop(lsorted, rsorted, s2)
              ELSE IF objects_key(s2.lval) = objects_key(s2.rval)
              THEN DiffLoop(lsorted, rsorted,
                     [s2 EXCEPT !.ret = Append(@, << s2.rval[1],
                                                     s2.rval[2] - s2.lval[2],
                                                     s2.rval[3] - s2.lval[3] >>),
                                !.lval = l2.val, !.lend = l2.end, !.lit = l2.pos,
                                !.rval = r2.val, !.rend = r2.end, !.rit = r2.pos])
              ELSE IF objects_key(s2.lval) < objects_key(s2.rval)
              THEN DiffLoop(lsorted, rsorted,
                     [s2 EXCEPT !.ret = Append(@, val_neg(s2.lval)),
                                !.lval = l2.val, !.lend = l2.end, !.lit = l2.pos])
              ELSE DiffLoop(lsorted, rsorted,
                     [s2 EXCEPT !.ret = Append(@, s2.rval),
                                !.rval = r2.val, !.rend = r2.end, !.rit = r2.pos])

_fast_get_summary_diff(l, r) ==
    DiffLoop(sorted(l), sorted(r),
             [lit |-> 1, rit |-> 1, lval |-> NoRow, rval |-> NoRow,
              lend |-> FALSE, rend |-> FALSE, ret |-> << >>])

(* ------------------------------ the heap ------------------------------- *)
\* Faulty variant of gc_collect: nothing is collected.
gc_collect_nothing(st) == st

\* gc.collect(): every unreachable object is collected.
gc_collect(st) ==
    [ m \in Stubs |-> IF st[m].status = "unreachable"
                      THEN [st[m] EXCEPT !.status = "collected"]
                      ELSE st[m] ]

\* r(): calling a weak reference gives the object, or None once collected.
Deref(st, r) == IF st[r].status = "collected" THEN None ELSE r

\* Faulty variant of HasIgnoredWord: the marker is never found.
HasIgnoredWordNever(st, m) == FALSE

\* any(word in repr(m) for word in IGNORED_MOCK_NAME_WORDS)
HasIgnoredWord(st, m) == st[m].ignored

\* summary.summarize(muppy.get_objects()): one row per class with instances.
summarize(st) ==
    LET n == Cardinality({ m \in Stubs : st[m].status \in {"live", "unreachable"} })
    IN IF n = 0 THEN << >> ELSE << << MOCK_KEY, n, n * MOCK_SIZE >> >>

\* get_summary (329-333): collect, then summarize; gives the world and the summary.
get_summary(w) ==
    LET st == gc_collect(w.stubs)
    IN [ w |-> [w EXCEPT !.stubs = st], summary |-> summarize(st) ]

(* --------------------------- the mock registry ------------------------- *)
\* Faulty variant of register_mock: the weak reference is not kept.
register_mock_forgets(slf, m) == slf

\* register_mock (290-298): append a weak reference to the mock.
register_mock(slf, m) == [slf EXCEPT !.mock_refs = Append(@, m)]

\* Faulty variant of NextPreviousMockRefs: the mocks without the ignore marker.
BaselineOfFiltered(mocks, filtered_mocks, new_mocks) == filtered_mocks

\* Faulty variant of NextPreviousMockRefs: only the mocks just listed.
BaselineOfNew(mocks, filtered_mocks, new_mocks) == new_mocks

\* The baseline check_for_leaks stores (314): weak references to mocks.
NextPreviousMockRefs(mocks, filtered_mocks, new_mocks) == mocks

\* check_for_leaks (300-327).  w.exc is <<new_mocks>> when LeakDetected is raised.
check_for_leaks(w) ==
    LET st == gc_collect(w.stubs)
        refs == w.self.mock_refs
        derefs == [ i \in 1..Len(refs) |-> Deref(st, refs[i]) ]
        mocks == SelectSeq(derefs, LAMBDA m : m # None)
        filtered_mocks == SelectSeq(mocks, LAMBDA m : ~HasIgnoredWord(st, m))
        prev == w.self.previous_mock_refs
        prev_ids == { Deref(st, prev[i]) : i \in 1..Len(prev) }
        new_mocks == SelectSeq(filtered_mocks, LAMBDA m : m \notin prev_ids)
        raised == new_mocks # << >>
    IN [ w EXCEPT
           !.stubs = st,
           !.self.previous_mock_refs =
               NextPreviousMockRefs(mocks, filtered_mocks, new_mocks),
           !.exc = IF raised THEN << new_mocks >> ELSE << >>,
           !.n_checks = @ + 1,
           !.last_check =
               [ n |-> w.n_checks + 1,
                 new |-> new_mocks,
                 live |-> { m \in Stubs : st[m].status = "live" },
                 ignored |-> { m \in Stubs : st[m].status # "unborn" /\ st[m].ignored },
                 raised |-> raised,
                 \* the locals the raising frame still holds after `del` (326)
                 frame |-> IF raised
                           THEN [ mocks |-> << >>, filtered_mocks |-> filtered_mocks,
                                  new_mocks |-> << >> ]
                           ELSE [ mocks |-> << >>, filtered_mocks |-> << >>,
                                  new_mocks |-> << >> ] ],
           !.first_check =
               [ m \in Stubs |->
                   IF st[m].status # "live" \/ @[m] # "pending" THEN @[m]
                   ELSE IF m \in Range(new_mocks) THEN "new"
                   ELSE IF st[m].ignored THEN "ignored"
                   ELSE "missed" ],
           !.times_new =
               [ m \in Stubs |-> IF m \in Range(new_mocks) THEN @[m] + 1 ELSE @[m] ] ]

(* ------------------------------ names ---------------------------------- *)
ClassName(t) == << "class", t.cls >>      \* test.test.__class__.__name__
ModuleName(t) == << "module", t.cls >>    \* test.test.__class__.__module__
TestName(t) == << "test", t.id >>         \* str(test)

(* --------------------------- level tracking ---------------------------- *)
\* started_level (221-222)
started_level(w, level, name) ==
    [w EXCEPT !.self.level_name = DictPut(@, level, name)]

\* get_level_path (200-204): the names from the reporting level up to level 1.
get_level_path(slf) ==
    [ k \in 1..slf.reporting_level |->
        DictGet(slf.level_name, slf.reporting_level + 1 - k, << "???" >>) ]

\* filtered_diff (245): the rows with a non-zero count or size delta.
filtered_diff(diff) == SelectSeq(diff, LAMBDA row : row[2] # 0 \/ row[3] # 0)

\* `not self.current_summary`: None or an empty list.
NoCurrentSummary(cs) == cs = NoSummary \/ cs[1] = << >>

\* Faulty variant of ReportsLevel: the levels at or finer than the threshold.
ReportsLevelAtOrFiner(slf, level) ==
    slf.reporting_level # 0 /\ level >= slf.reporting_level

\* The levels finished_level acts on (225-229): those up to reporting_level.
ReportsLevel(slf, level) == level <= slf.reporting_level

\* Faulty variant of ArmCheck: the boundary clears the flag.
DisarmCheck(slf) == [slf EXCEPT !.check_for_leaks_before_next_test = FALSE]

\* `self.check_for_leaks_before_next_test = True` (226)
ArmCheck(slf) == [slf EXCEPT !.check_for_leaks_before_next_test = TRUE]

\* finished_level (224-254)
finished_level(w0, level, name) ==
    LET w == [w0 EXCEPT !.exit_calls[level] = @ + 1]
    IN
    IF ~ReportsLevel(w.self, level) THEN w
    ELSE
      LET w1 == [w EXCEPT !.self = ArmCheck(@)]
      IN IF ~w1.self.report_delta THEN w1
         ELSE
           LET old_summary == w1.self.previous_summaries[level][1]
               g == get_summary(w1)
               w2 == IF NoCurrentSummary(w1.self.current_summary)
                     THEN [g.w EXCEPT !.self.current_summary = << g.summary >>]
                     ELSE w1
               cur == w2.self.current_summary[1]
               diff == _fast_get_summary_diff(old_summary, cur)
           IN [w2 EXCEPT !.n_reports = @ + 1,
                         !.last_report = [ level |-> level, name |-> name,
                                           rows |-> filtered_diff(diff) ],
                         !.self.previous_summaries = DictPut(@, level, cur)]

\* Faulty variant of InitialLevels: only the levels up to the threshold.
InitialLevelsReported(slf) == { i \in Levels : i <= slf.reporting_level }

\* The levels given the initial summary: range(1, LEVEL_TEST + 1) (147).
InitialLevels(slf) == Levels

\* create_initial_summary (138-148)
create_initial_summary(w) ==
    LET w1 == [w EXCEPT !.self.current_summary = NoSummary]
        g == get_summary(w1)
        w2 == IF w1.self.report_delta THEN g.w ELSE w1
    IN IF DictIsEmpty(w2.self.previous_summaries)
          /\ w2.self.reporting_level # 0 /\ w2.self.report_delta
       THEN [w2 EXCEPT !.self.previous_summaries =
                           [ i \in Levels |->
                               IF i \in InitialLevels(w2.self)
                               THEN << g.summary >> ELSE Absent ]]
       ELSE w2

(* ------------------------- the leak check driver ----------------------- *)
\* Faulty variant of StopsRun: the condition the option's name suggests.
StopsRunWhenFailFast(slf) == slf.fail_fast

\* Whether do_check signals the run to stop after recording a leak (185-186).
StopsRun(slf) == ~slf.fail_fast

\* do_check (167-186), the closure of run_test; t is the test, its result sink
\* is the proxy of t.  kind is "pre" for before=True and "post" for before=False.
do_check(w, t, before) ==
    LET w1 == check_for_leaks(w)
        kind == IF before THEN "pre" ELSE "post"
        prior == w1.self.last_test_result # None
        calls ==
            IF prior
            THEN << [ sink |-> w1.self.last_test_result, test |-> w1.self.last_test.id,
                      kind |-> kind, during |-> t.id, label |-> "for prior test",
                      check |-> w1.n_checks, mocks |-> w1.exc[1] ],
                    [ sink |-> t.id, test |-> t.id,
                      kind |-> kind, during |-> t.id, label |-> "for prior test",
                      check |-> w1.n_checks, mocks |-> w1.exc[1] ] >>
            ELSE << [ sink |-> t.id, test |-> t.id,
                      kind |-> kind, during |-> t.id,
                      label |-> IF before THEN "before test"
                                ELSE "before any tests were run",
                      check |-> w1.n_checks, mocks |-> w1.exc[1] ] >>
    IN IF w1.exc = << >> THEN w1
       ELSE [w1 EXCEPT !.addError_calls = @ \o calls,
                       !.self.failed_test_with_leak = TRUE,
                       !.stop_calls = IF StopsRun(w1.self) THEN @ + 1 ELSE @,
                       !.exc = << >>]

\* final_check (256-264)
final_check(w) ==
    IF w.self.detect_leaked_mocks /\ w.self._final_exc_info = << >>
    THEN LET w1 == check_for_leaks(
                     [w EXCEPT !.self.current_summary = NoSummary,
                               !.self.previous_summaries = EmptyDict])
         IN [w1 EXCEPT !.self._final_exc_info = w1.exc,
                       !.final_checks = @ + 1,
                       !.exc = << >>]
    ELSE w

(* --------------------------- initial state ----------------------------- *)
\* __init__ (61-80) and the class attributes (49-51); fail_fast is a class
\* attribute a deployment may override.
NewPlugin(ff) ==
    [ detect_leaked_mocks |-> TRUE,
      fail_fast |-> ff,
      reporting_level |-> 0,
      check_for_leaks_before_next_test |-> TRUE,
      report_delta |-> FALSE,
      patch_mock |-> FALSE,
      failed_test_with_leak |-> FALSE,
      last_test |-> NoTest,
      last_test_result |-> None,
      level_name |-> EmptyDict,
      previous_summaries |-> EmptyDict,
      current_summary |-> NoSummary,
      _final_exc_info |-> << >>,
      mock_refs |-> << >>,
      previous_mock_refs |-> << >> ]

NoCheck == [ n |-> 0, new |-> << >>, live |-> {}, ignored |-> {}, raised |-> FALSE,
             frame |-> [ mocks |-> << >>, filtered_mocks |-> << >>,
                         new_mocks |-> << >> ] ]

NoReport == [ level |-> 0, name |-> << >>, rows |-> << >> ]

Unborn == [ status |-> "unborn", ignored |-> FALSE, creator |-> 0 ]

\* An object nothing refers to any more: its name is out of reach; of its
\* origin only whether it pre-dates begin() (creator -1) is kept.
Unreachable(stub) ==
    [ status |-> "unreachable", ignored |-> FALSE,
      creator |-> IF stub.creator < 0 THEN stub.creator ELSE 0 ]

RunInit(ff) ==
    /\ self = NewPlugin(ff)
    /\ stubs = [ m \in Stubs |-> Unborn ]
    /\ patched = FALSE
    /\ pc = "new"
    /\ test = NoTest
    /\ ntests = 0
    /\ classes_seen = 0
    /\ addError_calls = << >>
    /\ stop_calls = 0
    /\ last_check = NoCheck
    /\ first_check = [ m \in Stubs |-> "pending" ]
    /\ times_new = [ m \in Stubs |-> 0 ]
    /\ n_checks = 0
    /\ n_reports = 0
    /\ last_report = NoReport
    /\ final_checks = 0
    /\ exit_calls = [ i \in Levels |-> 0 ]

Init ==
    /\ \E ff \in BOOLEAN : RunInit(ff)
    /\ left = << >> /\ right = << >> /\ ret = << >> /\ dpc = "off"

\* Assign the world a handler left behind to the variables.
Commit(w) ==
    /\ self' = w.self
    /\ stubs' = w.stubs
    /\ addError_calls' = w.addError_calls
    /\ stop_calls' = w.stop_calls
    /\ last_check' = w.last_check
    /\ first_check' = w.first_check
    /\ times_new' = w.times_new
    /\ n_checks' = w.n_checks
    /\ n_reports' = w.n_reports
    /\ last_report' = w.last_report
    /\ final_checks' = w.final_checks
    /\ exit_calls' = w.exit_calls

diffVars == << left, right, ret, dpc >>

(* ------------------------- the runner's events ------------------------- *)
\* configure (103-111)
Configure ==
    /\ pc = "new"
    /\ \E level \in 0..LEVEL_TEST, delta \in BOOLEAN, patch \in BOOLEAN :
         self' = [self EXCEPT
                    !.reporting_level = IF level # 0 THEN level ELSE @,
                    !.report_delta = delta,
                    !.patch_mock = patch]
    /\ pc' = "configured"
    /\ UNCHANGED << stubs, patched, test, ntests, classes_seen, addError_calls, stop_calls,
                    last_check, first_check, times_new, n_checks, n_reports,
                    last_report, final_checks, exit_calls, diffVars >>

\* The mocks begin() records (120-121): those alive after gc.collect().
PreExisting(st) ==
    LET alive == { m \in Stubs : st[m].status = "live" }
    IN SelectSeq([ i \in 1..MaxStubs |-> i ], LAMBDA m : m \in alive)

\* Where begin() stores the pre-existing mocks (120).
RecordPreExisting(slf, refs) == [slf EXCEPT !.mock_refs = refs]

\* begin (113-133)
Begin ==
    /\ pc = "configured"
    /\ LET w1 == create_initial_summary(World)
           st == gc_collect(w1.stubs)
           w2 == IF w1.self.detect_leaked_mocks
                 THEN [w1 EXCEPT !.stubs = st,
                                 !.self = RecordPreExisting(@, PreExisting(st))]
                 ELSE w1
       IN /\ Commit(w2)
          /\ patched' = (w2.self.detect_leaked_mocks /\ w2.self.patch_mock)
    /\ pc' = "idle"
    /\ UNCHANGED << test, ntests, classes_seen, diffVars >>

\* The classes the next test may belong to: one already seen, or the next new
\* one (classes are interchangeable, so they are numbered as they appear).
NextClasses == { c \in 1..MaxClasses : c <= classes_seen + 1 }

\* Faulty variant of ClassDiffers: any previous test closes its class.
ClassDiffersOrNot(lt, t) == lt # NoTest

\* `self.last_test and type(self.last_test.test) is not type(test.test)` (151)
ClassDiffers(lt, t) == lt # NoTest /\ lt.cls # t.cls

\* `not self.last_test or type(self.last_test.test) is type(test.test)` (154)
ClassSameOrFirst(lt, t) == lt = NoTest \/ lt.cls = t.cls

\* beforeTest (150-157); the runner starts a test unless the run was stopped.
BeforeTest ==
    /\ pc = "idle"
    /\ stop_calls = 0
    /\ ntests < MaxTests
    /\ \E c \in NextClasses :
         LET t == [ id |-> ntests + 1, cls |-> c ]
             lt == self.last_test
             w1 == IF ClassDiffers(lt, t)
                   THEN finished_level(World, LEVEL_CLASS, ClassName(lt))
                   ELSE World
             w2 == IF ClassSameOrFirst(lt, t)
                   THEN started_level(w1, LEVEL_CLASS, ClassName(t))
                   ELSE w1
             w3 == started_level(w2, LEVEL_TEST, TestName(t))
         IN /\ Commit(w3)
            /\ test' = t
            /\ classes_seen' = IF c > classes_seen THEN c ELSE classes_seen
    /\ ntests' = ntests + 1
    /\ pc' = "before"
    /\ UNCHANGED << patched, diffVars >>

\* run_test up to the call of the test body (164-191)
RunTestEnter ==
    /\ pc = "before"
    /\ LET w1 == [World EXCEPT !.self.current_summary = NoSummary]
           w2 == IF w1.self.check_for_leaks_before_next_test
                 THEN do_check(w1, test, TRUE)
                 ELSE w1
           w3 == [w2 EXCEPT !.self.level_name =
                                DictPut(@, LEVEL_MODULE, ModuleName(test))]
       IN Commit(w3)
    /\ pc' = "body"
    /\ UNCHANGED << patched, test, ntests, classes_seen, diffVars >>

\* run_test after the test body returned (195-198)
RunTestExit ==
    /\ pc = "body"
    /\ LET w1 == IF self.reporting_level >= LEVEL_TEST
                 THEN do_check(World, test, FALSE)
                 ELSE World
           w2 == [w1 EXCEPT !.self.last_test_result = test.id]
       IN Commit(w2)
    /\ pc' = "ran"
    /\ UNCHANGED << patched, test, ntests, classes_seen, diffVars >>

\* afterTest (159-162)
AfterTest ==
    /\ pc = "ran"
    /\ LET w1 == [World EXCEPT !.self.last_test = test]
           w2 == finished_level(w1, LEVEL_TEST, TestName(test))
       IN Commit(w2)
    /\ pc' = "idle"
    /\ test' = NoTest
    /\ UNCHANGED << patched, ntests, classes_seen, diffVars >>

\* report (266-278)
Report ==
    /\ pc = "idle"
    /\ Commit(final_check(World))
    /\ pc' = "reported"
    /\ UNCHANGED << patched, test, ntests, classes_seen, diffVars >>

\* Faulty variant of FinalErrorDue: silent once a test was failed for a leak.
FinalErrorDueUnlessFailed(slf) ==
    slf._final_exc_info # << >> /\ slf.last_test # NoTest /\ ~slf.failed_test_with_leak

\* Whether finalize records the stored final exception (287).
FinalErrorDue(slf) == slf._final_exc_info # << >> /\ slf.last_test # NoTest

\* finalize (280-288); its result is the run's result sink (0).
Finalize ==
    /\ pc \in {"idle", "reported"}
    /\ LET w1 == final_check(World)
           w2 == IF FinalErrorDue(w1.self)
                 THEN [w1 EXCEPT !.addError_calls =
                          Append(@, [ sink |-> 0, test |-> w1.self.last_test.id,
                                      kind |-> "final", during |-> 0,
                                      label |-> "final",
                                      check |-> w1.n_checks,
                                      mocks |-> w1.self._final_exc_info[1] ])]
                 ELSE w1
       IN Commit(w2)
    \* 283-284: unwrapped only when the wrapper carries __wrapped__, which
    \* depends on the functools of the interpreter.
    /\ \E has_wrapped \in BOOLEAN :
         patched' = IF self.patch_mock /\ has_wrapped THEN FALSE ELSE patched
    /\ pc' = "done"
    /\ UNCHANGED << test, ntests, classes_seen, diffVars >>

(* ------------------- what tests and fixtures do to mocks --------------- *)
InTest == pc = "body"

\* Mocks are constructed before begin() (pre-existing), by the module imports
\* and fixtures that run before the first test, and by test bodies; test bodies
\* release and rename them.
CanCreate == pc \in {"configured", "body"} \/ (pc = "idle" /\ ntests = 0)
ReleasePhases == {"body"}
RenamePhases == {"body"}

\* A mock is constructed: mock.Base.__init__, wrapped by begin() (126-131).
CreateMock ==
    /\ CanCreate
    /\ \E m \in Stubs, ign \in BOOLEAN :
         /\ stubs[m].status = "unborn"
         /\ \A k \in Stubs : k < m => stubs[k].status # "unborn"
         /\ stubs' = [stubs EXCEPT ![m] =
               [ status |-> "live", ignored |-> ign,
                 creator |-> IF InTest THEN test.id
                             ELSE IF pc = "configured" THEN 0 - 1 ELSE 0 ]]
         /\ self' = IF patched THEN register_mock(self, m) ELSE self
    /\ last_check' = NoCheck
    /\ UNCHANGED << patched, pc, test, ntests, classes_seen, addError_calls,
                    stop_calls, first_check, times_new, n_checks, n_reports,
                    last_report, final_checks, exit_calls, diffVars >>

\* The last strong reference to a mock is dropped.
ReleaseMock ==
    /\ pc \in ReleasePhases
    /\ \E m \in Stubs :
         /\ stubs[m].status = "live"
         /\ stubs' = [stubs EXCEPT ![m] = Unreachable(@)]
         /\ first_check' = [first_check EXCEPT
                               ![m] = IF @ = "pending" THEN "released" ELSE "gone"]
         /\ times_new' = [times_new EXCEPT ![m] = 0]
    /\ last_check' = NoCheck
    /\ UNCHANGED << self, patched, pc, test, ntests, classes_seen, addError_calls,
                    stop_calls, n_checks, n_reports, last_report, final_checks,
                    exit_calls, diffVars >>

\* A mock's name changes and repr(m) loses the ignore marker.  (Gaining the
\* marker before a check is being created with it; gaining it after a check
\* changes no later check, the mock being in the baseline by then.)
RenameMock ==
    /\ pc \in RenamePhases
    /\ \E m \in Stubs :
         /\ stubs[m].status = "live"
         /\ stubs[m].ignored
         /\ stubs' = [stubs EXCEPT ![m].ignored = FALSE]
    /\ last_check' = NoCheck
    /\ UNCHANGED << self, patched, pc, test, ntests, classes_seen, addError_calls,
                    stop_calls, first_check, times_new, n_checks, n_reports,
                    last_report, final_checks, exit_calls, diffVars >>

Next ==
    \/ Configure
    \/ Begin
    \/ BeforeTest
    \/ RunTestEnter
    \/ RunTestExit
    \/ AfterTest
    \/ Report
    \/ Finalize
    \/ CreateMock
    \/ ReleaseMock
    \/ RenameMock

Spec == Init /\ [][Next]_vars

(* ---------------- the merge, applied to bounded summaries --------------- *)
Keys == 1..MaxKey
Counts == {1, 2}
Sizes == {3, 5}

\* The keys of K in ascending order.
KeySeq(K) == SelectSeq([ i \in 1..MaxKey |-> i ], LAMBDA k : k \in K)

\* Every summary sorted ascending by class key with unique keys.
Summaries ==
    UNION { { [ i \in 1..Cardinality(K) |->
                  << KeySeq(K)[i], f[KeySeq(K)[i]][1], f[KeySeq(K)[i]][2] >> ]
              : f \in [K -> Counts \X Sizes] }
            : K \in SUBSET Keys }

DiffInit ==
    /\ RunInit(TRUE)
    /\ left \in Summaries
    /\ right \in Summaries
    /\ ret = << >>
    /\ dpc = "input"

runVars == << self, stubs, patched, pc, test, ntests, classes_seen,
              addError_calls, stop_calls, last_check, first_check, times_new,
              n_checks, n_reports, last_report, final_checks, exit_calls >>

\* _fast_get_summary_diff(left, right)
DiffCall ==
    /\ dpc = "input"
    /\ ret' = _fast_get_summary_diff(left, right)
    /\ dpc' = "done"
    /\ UNCHANGED << left, right, runVars >>

\* _fast_get_summary_diff(left, left)
DiffSelfCall ==
    /\ dpc = "input"
    /\ ret' = _fast_get_summary_diff(left, left)
    /\ dpc' = "self"
    /\ UNCHANGED << left, right, runVars >>

DiffNext == DiffCall \/ DiffSelfCall

SpecDiff == DiffInit /\ [][DiffNext]_vars

(* ============================== properties ============================== *)
Calls == DOMAIN addError_calls
PerTestCalls == { i \in Calls : addError_calls[i].kind \in {"pre", "post"} }
CallsOfCheck(k) == { i \in Calls : addError_calls[i].check = k }

\* A live mock a test body constructed.
CreatedInTest(m) == stubs[m].status = "live" /\ stubs[m].creator >= 1

\* An error that lists mock m was recorded against test t.
LeakRecordedAgainst(m, t) ==
    \E i \in Calls : addError_calls[i].test = t /\ m \in Range(addError_calls[i].mocks)

\* A mock created in a test, never released and not carrying the ignore marker
\* at the first check after its creation, was listed as new by that check and
\* an error listing it is recorded against its test when finalize has returned.
LeakOfTestReported(m) ==
    (CreatedInTest(m) /\ first_check[m] # "ignored")
        => (first_check[m] = "new" /\ LeakRecordedAgainst(m, stubs[m].creator))

C2_PriorTestAloneIsBlamed ==
    ( /\ pc = "body" /\ test.id >= 2
      /\ last_check.n = n_checks /\ last_check.raised
      /\ \E m \in Range(last_check.new) : stubs[m].creator = test.id - 1 )
    => /\ \E i \in CallsOfCheck(n_checks) : addError_calls[i].test = test.id - 1
       /\ ~ \E i \in Calls : addError_calls[i].test = test.id

\* No mock of this run pre-dates begin().
NoPreExisting == \A m \in Stubs : stubs[m].creator >= 0

\* C3, as stated (already for runs in which no mock pre-dates begin()): with
\* fail-fast enabled the first leak a per-test check detects produces exactly
\* one addError call and stop() is called; with fail-fast disabled stop() is
\* never called.
C3_FailFastStopsAtFirstLeak ==
    NoPreExisting =>
      /\ (self.fail_fast /\ self.failed_test_with_leak)
           => /\ stop_calls > 0
              /\ Cardinality(CallsOfCheck(addError_calls[1].check)) = 1
      /\ ~self.fail_fast => stop_calls = 0

\* C4: a per-test check that detects a leak records the failure and then calls
\* stop() if and only if fail-fast is disabled: stop() has been called once per
\* detecting per-test check when fail_fast is false, and never when it is true,
\* so that the runner goes on to the test body and to later tests.
C4_StopIffFailFastDisabled ==
    /\ (stop_calls > 0) <=> (self.failed_test_with_leak /\ ~self.fail_fast)
    /\ stop_calls = IF self.fail_fast THEN 0
                    ELSE Cardinality({ addError_calls[i].check : i \in PerTestCalls })
    /\ self.failed_test_with_leak <=> PerTestCalls # {}

C4_Witness ==
    /\ self.fail_fast /\ self.failed_test_with_leak /\ stop_calls = 0
    /\ pc = "body" /\ test.id > addError_calls[1].during

\* C6: a mock that stays live is in the new-leak list of at most one check,
\* once; later checks that find it live do not list it.
C6_ListedAtMostOnce ==
    /\ \A m \in Stubs : times_new[m] <= 1
    /\ \A i, j \in DOMAIN last_check.new :
         i # j => last_check.new[i] # last_check.new[j]

C6_Witness ==
    \E m \in Stubs : /\ stubs[m].status = "live" /\ times_new[m] = 1
                     /\ last_check.n = n_checks
                     /\ m \in last_check.live
                     /\ m \notin Range(last_check.new)

\* C7: a mock whose representation holds the ignore marker when a check runs
\* is not in that check's new-leak list (per-test checks and the final check).
C7_IgnoredNeverListed == Range(last_check.new) \cap last_check.ignored = {}

C7_Witness ==
    /\ last_check.n = 1 /\ n_checks = 1
    /\ \E m \in last_check.ignored \cap last_check.live : first_check[m] = "ignored"

\* C8: a check lists only mocks that are still referenced: a mock released
\* before the check (its weak reference expired) is never listed.
C8_ReleasedNeverListed == Range(last_check.new) \subseteq last_check.live

C8_Witness ==
    /\ last_check.n = n_checks /\ n_checks > 0
    /\ \E m \in Range(self.mock_refs) :
         stubs[m].status = "collected" /\ first_check[m] = "released"

\* C9, as stated: a mock that exists before begin() is never in a check's
\* new-leak list.
C9_PreExistingNeverListed ==
    \A m \in Range(last_check.new) : stubs[m].creator # 0 - 1

KeysOf(rows) == { rows[i][1] : i \in DOMAIN rows }
RowOf(rows, k) == rows[CHOOSE i \in DOMAIN rows : rows[i][1] = k]
ExpectedRow(l, r, k) ==
    IF k \in KeysOf(l) /\ k \in KeysOf(r)
    THEN << k, RowOf(r, k)[2] - RowOf(l, k)[2], RowOf(r, k)[3] - RowOf(l, k)[3] >>
    ELSE IF k \in KeysOf(l)
    THEN << k, 0 - RowOf(l, k)[2], 0 - RowOf(l, k)[3] >>
    ELSE << k, RowOf(r, k)[2], RowOf(r, k)[3] >>

C5_MergeIsUnionOfDeltas ==
    /\ dpc = "done" =>
         /\ Len(ret) = Cardinality(KeysOf(left) \cup KeysOf(right))
         /\ \A i \in DOMAIN ret :
              /\ ret[i][1] \in KeysOf(left) \cup KeysOf(right)
              /\ ret[i] = ExpectedRow(left, right, ret[i][1])
              /\ i < Len(ret) => ret[i][1] < ret[i + 1][1]
    /\ dpc = "self" =>
         /\ Len(ret) = Len(left)
         /\ \A i \in DOMAIN ret : ret[i][2] = 0 /\ ret[i][3] = 0

C5_Witness ==
    /\ dpc = "done"
    /\ Len(left) >= 2 /\ right # << >>
    /\ KeysOf(left) \cap KeysOf(right) # {}
    /\ left[Len(left)][1] > right[Len(right)][1]
    /\ Len(ret) = Len(left)

\* C11, as stated: the final-check path is idempotent: of the final_check calls
\* of a run (report's, then finalize's) at most one runs the collection pass
\* and check_for_leaks, whatever the first call found.
C11_SecondFinalCheckDoesNothing == final_checks <= 1

\* C12, as stated (already for runs in which no mock pre-dates begin()): every
\* error recorded by the check that runs after a test's body (reporting level
\* Test) is recorded against the test whose body just ran, never against an
\* earlier test.
C12_PostCheckBlamesCurrentTest ==
    NoPreExisting =>
      \A i \in Calls : addError_calls[i].kind = "post"
                          => addError_calls[i].test = addError_calls[i].during

\* The errors recorded by a per-test check that knew no previous test's result.
NoPriorCalls ==
    { i \in Calls : addError_calls[i].label \in
                       {"before test", "before any tests were run"} }

\* C13, as stated (already for runs in which no mock pre-dates begin()): an
\* error recorded while no previous test's result is known is recorded against
\* the current test; it is labelled 'before any tests were run' when the check
\* precedes the first test of the run, and 'before test' only when the check
\* precedes a subsequent test.
C13_LabelNamesFirstOrSubsequent ==
    NoPreExisting =>
      \A i \in NoPriorCalls :
        LET c == addError_calls[i]
        IN /\ c.test = c.during
           /\ (c.kind = "pre" /\ c.during = 1)
                 => c.label = "before any tests were run"
           /\ c.label = "before test" => (c.kind = "pre" /\ c.during >= 2)

\* The steps in which finished_level is called: afterTest calls it for the
\* Test level, beforeTest for the Class level when the class changes.
IsTestExit == pc = "ran" /\ pc' = "idle"
IsClassExit ==
    /\ pc = "idle" /\ pc' = "before"
    /\ self.last_test # NoTest /\ self.last_test.cls # test'.cls

\* The step printed a report for level and stored the current summary as
\* previous_summaries[level].
ExitReported(level) ==
    /\ n_reports' = n_reports + 1
    /\ last_report'.level = level
    /\ self'.current_summary # NoSummary
    /\ self'.previous_summaries[level] = self'.current_summary

\* The step printed nothing and left the summaries, the heap and the
\* check-pending flag as they were.
ExitDidNothing ==
    /\ n_reports' = n_reports
    /\ last_report' = last_report
    /\ stubs' = stubs
    /\ self'.previous_summaries = self.previous_summaries
    /\ self'.current_summary = self.current_summary
    /\ self'.check_for_leaks_before_next_test = self.check_for_leaks_before_next_test

\* C14, as stated: with delta reporting enabled and a threshold set, the exit
\* of a level reports and replaces previous_summaries[level] if and only if the
\* level is at or finer than the threshold (level >= reporting_level), and does
\* nothing for a coarser level.
C14_ExitReportsAtOrFinerThanThreshold ==
    [][ \A level \in {LEVEL_CLASS, LEVEL_TEST} :
          ( /\ IF level = LEVEL_TEST THEN IsTestExit ELSE IsClassExit
            /\ self.report_delta /\ self.reporting_level # 0 )
          => IF level >= self.reporting_level
             THEN ExitReported(level)
             ELSE ExitDidNothing ]_vars

\* C14, amended: with delta reporting enabled, the exit of a level reports and
\* replaces previous_summaries[level] if and only if the level is at or coarser
\* than the threshold (level <= reporting_level); for a finer level it returns
\* at once and changes no state.
C14_ExitReportsAtOrCoarserThanThreshold ==
    [][ \A level \in {LEVEL_CLASS, LEVEL_TEST} :
          ( /\ IF level = LEVEL_TEST THEN IsTestExit ELSE IsClassExit
            /\ self.report_delta )
          => IF level <= self.reporting_level
             THEN ExitReported(level)
             ELSE ExitDidNothing ]_vars

\* A Class exit was reported under the threshold Test, and the exit of the
\* test before it as well.
C14_Witness ==
    /\ pc = "before" /\ self.report_delta /\ self.reporting_level = LEVEL_TEST
    /\ n_reports = 2 /\ last_report.level = LEVEL_CLASS
    /\ self.previous_summaries[LEVEL_CLASS] = self.current_summary

\* C15: beforeTest calls finished_level for the Class level if and only if a
\* previous test exists and its class differs from the class of the test that
\* starts; consecutive tests of the same class never close the Class level,
\* and no other event closes it.
C15_ClassBoundaryIffTypeDiffers ==
    [][ /\ (pc = "idle" /\ pc' = "before")
          => exit_calls'[LEVEL_CLASS] =
               IF self.last_test # NoTest /\ self.last_test.cls # test'.cls
               THEN exit_calls[LEVEL_CLASS] + 1
               ELSE exit_calls[LEVEL_CLASS]
        /\ ~(pc = "idle" /\ pc' = "before")
          => exit_calls'[LEVEL_CLASS] = exit_calls[LEVEL_CLASS] ]_vars

\* The second test of a run has started, its class differs from the first
\* test's, and the Class level was closed once.
C15_Witness ==
    /\ pc = "before" /\ test.id = 2
    /\ self.last_test # NoTest /\ test.cls # self.last_test.cls
    /\ exit_calls[LEVEL_CLASS] = 1

\* The end-of-run final check has run.
AfterFinalCheck == pc \in {"reported", "done"}

\* C16, as stated: previous_summaries has an entry for a level only if delta
\* reporting is on and the level is within the reporting threshold, and it is
\* empty after the end-of-run final check.
C16_EntryOnlyForReportedLevel ==
    /\ \A level \in Levels :
         self.previous_summaries[level] # Absent
            => (self.report_delta /\ ReportsLevel(self, level))
    /\ AfterFinalCheck => DictIsEmpty(self.previous_summaries)

\* C16, amended: previous_summaries has entries only if delta reporting is on
\* and a threshold is set; begin() then gives every one of the four levels an
\* entry, those finer than the threshold included, and they stay until the
\* end-of-run final check, after which previous_summaries is empty.
C16_EntriesForAllLevelsOrNone ==
    /\ ~DictIsEmpty(self.previous_summaries)
         => (self.report_delta /\ self.reporting_level # 0)
    /\ (pc \in {"idle", "before", "body", "ran"}
          /\ self.report_delta /\ self.reporting_level # 0)
         => \A level \in Levels : self.previous_summaries[level] # Absent
    /\ AfterFinalCheck => DictIsEmpty(self.previous_summaries)

\* A test runs under the threshold Class, with delta reporting on, and every
\* level has its entry, the Test level included.
C16_Witness ==
    /\ pc = "body" /\ self.report_delta /\ self.reporting_level = LEVEL_CLASS
    /\ \A level \in Levels : self.previous_summaries[level] # Absent

\* C17: right after a check_for_leaks, whether it raised or not,
\* previous_mock_refs refers to exactly the registered mocks that were live at
\* that check, those with the ignore marker included and collected ones
\* excluded; hence a mock whose first check found it live and ignored is never
\* listed as new afterwards, also once it has lost the marker.
C17_BaselineIsLiveSet ==
    /\ (last_check.n = n_checks /\ n_checks > 0)
         => /\ Range(self.previous_mock_refs)
                 = Range(self.mock_refs) \cap last_check.live
            /\ \A i, j \in DOMAIN self.previous_mock_refs :
                 i # j => self.previous_mock_refs[i] # self.previous_mock_refs[j]
    /\ \A m \in Stubs : first_check[m] = "ignored" => times_new[m] = 0

\* A mock that was live and ignored at its first check has lost the marker,
\* a later check that raised for another mock found it live, did not list it
\* and kept it in the baseline.
C17_Witness ==
    /\ last_check.n = n_checks /\ n_checks > 1 /\ last_check.raised
    /\ \E m \in Range(self.previous_mock_refs) :
         /\ first_check[m] = "ignored" /\ ~stubs[m].ignored
         /\ m \in last_check.live /\ m \notin Range(last_check.new)

\* C18, as stated (already for runs in which no mock pre-dates begin()): when
\* check_for_leaks raises LeakDetected, none of its local lists (mocks,
\* filtered_mocks, new_mocks) still holds a mock it reports.
C18_RaisingFrameHoldsNoLeakedMock ==
    (NoPreExisting /\ last_check.n = n_checks /\ last_check.raised)
      => \A m \in Range(last_check.new) :
           /\ m \notin Range(last_check.frame.mocks)
           /\ m \notin Range(last_check.frame.filtered_mocks)
           /\ m \notin Range(last_check.frame.new_mocks)

\* C19: check_for_leaks_before_next_test is true in every reachable state, and
\* every run_test runs check_for_leaks once before the test body, for every
\* reporting level and whether or not a level was closed since the last test.
C19_CheckAlwaysPending ==
    /\ [](self.check_for_leaks_before_next_test)
    /\ [][ (pc = "before" /\ pc' = "body") => n_checks' = n_checks + 1 ]_vars

\* The second test's body runs with no reporting threshold set (no level was
\* closed with effect), after the pre-test checks of both tests.
C19_Witness ==
    /\ pc = "body" /\ test.id = 2 /\ self.reporting_level = 0
    /\ self.check_for_leaks_before_next_test
    /\ n_checks = 2 /\ last_check.n = 2

\* C20, as stated: whenever a test's body executes, level_name[LEVEL_CLASS] is
\* the class name of that test, the first test after a change of class
\* included, so that the level path of a leak message names its class.
C20_LevelNameIsClassOfActiveTest ==
    pc = "body" => self.level_name[LEVEL_CLASS] = << ClassName(test) >>

====
